---- MODULE Spec2Model ----
(***************************************************************************)
(* Model of the CMSIS-NN Relay-to-TIR lowering pass                        *)
(* (src/relay/backend/contrib/cmsisnn/relay_to_tir.cc).                    *)
(*                                                                         *)
(* The main function's body is a tree of call sites, numbered in           *)
(* post-order.  The mutator calls Rewrite_ on each call site after its     *)
(* operands; Rewrite_ lowers a fused "cmsis-nn" composite into a PrimFunc  *)
(* holding one call_extern, registers it in the module and substitutes     *)
(* the call site; Mutate finally updates "main".                           *)
(*                                                                         *)
(* Values of a call_extern argument list are tagged records:               *)
(*   [handle |-> v]  a tir::Var,  [str |-> s]  a tir::StringImm,           *)
(*   [int |-> i]     an IntImm(Int(32)).                                   *)
(* Real numbers (quantization scales) are dyadic: [m |-> k, e |-> x]       *)
(* stands for k * 2^x, k >= 0.                                             *)
(***************************************************************************)
EXTENDS Integers, Sequences, FiniteSets, TLC

VARIABLES main_func, ir_module_, context_buffer_id_, memo_, pc

vars == <<main_func, ir_module_, context_buffer_id_, memo_, pc>>

(***************************************************************************)
(* Bounds of the model                                                     *)
(***************************************************************************)
MaxSites == 3

MaxDim == 2

(***************************************************************************)
(* Program constants                                                       *)
(***************************************************************************)
kScaledDiffIntegerBits == 5

kInputBits == 5

kBeta == 1

left_shift == 20

Int8Min == -128

Int8Max == 127

SizeofInt16 == 2

(***************************************************************************)
(* Small helpers                                                           *)
(***************************************************************************)
Handle(v) == [handle |-> v]

StringImm(s) == [str |-> s]

IsHandle(a) == "handle" \in DOMAIN a

IsInt(a) == "int" \in DOMAIN a

IsStr(a) == "str" \in DOMAIN a

RECURSIVE Pow2(_)
Pow2(n) == IF n <= 0 THEN 1 ELSE 2 * Pow2(n - 1)

RECURSIVE BitLen(_)
BitLen(n) == IF n <= 0 THEN 0 ELSE 1 + BitLen(n \div 2)

\* x >> n on a 32-bit signed x (arithmetic shift: \div rounds down)
RECURSIVE ShiftRight(_, _)
ShiftRight(x, n) == IF n <= 0 THEN x ELSE ShiftRight(x \div 2, n - 1)

RECURSIVE Product(_)
Product(s) == IF s = <<>> THEN 1 ELSE Head(s) * Product(Tail(s))

Concat(a, b) == a \o b

ToArg(value) == [int |-> value]

(***************************************************************************)
(* GetScalarFromConstant: reading an operand as a compile-time scalar      *)
(* succeeds only for a constant operand (fatal error otherwise).           *)
(***************************************************************************)
ScalarsAreConstant(body) == body.const_scalars

(***************************************************************************)
(* qnn::GetFixedPointMultiplierShift on a dyadic value m * 2^e with        *)
(* 0 <= m < 2^31: frexp gives significand m / 2^BitLen(m) in [0.5, 1) and  *)
(* exponent BitLen(m) + e; the multiplier is round(significand * 2^31).    *)
(***************************************************************************)
GetFixedPointMultiplierShift(v) ==
    IF v.m = 0
    THEN <<0, 0>>
    ELSE <<v.m * Pow2(31 - BitLen(v.m)), BitLen(v.m) + v.e>>

RealMul(a, b) == [m |-> a.m * b.m, e |-> a.e + b.e]

\* a / b for b a power of two
RealDiv(a, b) == [m |-> a.m, e |-> a.e - b.e]

\* std::max on powers of two
RealMax(a, b) == IF a.e >= b.e THEN a ELSE b

\* std::min<double>(v, (1ll << 31) - 1.0)
MinWithInt32Max(v) ==
    IF BitLen(v.m) + v.e >= 32 THEN [m |-> 2147483647, e |-> 0] ELSE v

(***************************************************************************)
(* CreatePrimFuncForExtern: the PrimFunc registered under global_var.      *)
(* The body is listed from the outermost statement to the innermost.       *)
(***************************************************************************)
CreatePrimFuncForExternNoAlloc(global_var, func_signature, call_extern_args, context_buffer_name, context_buffer_size) ==
    [global_var |-> global_var,
     params |-> func_signature,
     attrs |-> [global_symbol |-> global_var, target |-> "cmsis-nn", noalias |-> TRUE],
     body |-> <<[stmt |-> "Evaluate", call_extern |-> call_extern_args]>>]

CreatePrimFuncForExtern(global_var, func_signature, call_extern_args, context_buffer_name, context_buffer_size) ==
    LET evaluate == <<[stmt |-> "Evaluate", call_extern |-> call_extern_args]>>
        body == IF context_buffer_size # 0
                THEN <<[stmt |-> "AttrStmt", attr_key |-> "device_id"],
                       [stmt |-> "AttrStmt", attr_key |-> "device_type"],
                       [stmt |-> "Allocate", buffer_var |-> context_buffer_name,
                        extents |-> <<context_buffer_size>>]>> \o evaluate
                ELSE evaluate
    IN [global_var |-> global_var,
        params |-> func_signature,
        attrs |-> [global_symbol |-> global_var, target |-> "cmsis-nn", noalias |-> TRUE],
        body |-> body]

\* ICHECK(shape.size() == 4)
CMSISNNDimensionsOk(shape) == Len(shape) = 4

CMSISNNDimensions(shape) ==
    <<ToArg(shape[1]), ToArg(shape[2]), ToArg(shape[3]), ToArg(shape[4])>>

(***************************************************************************)
(* EmitConv2D                                                              *)
(* e is the composite body: e.clip / e.bias_add tell whether the clip and  *)
(* nn.bias_add nodes are present around qnn.requantize / qnn.conv2d.       *)
(***************************************************************************)
ConvClipMin(e) == IF e.clip THEN e.a_min ELSE Int8Min

ConvClipMax(e) == IF e.clip THEN e.a_max ELSE Int8Max

ConvHandleArgsBiasLast(e) ==
    <<StringImm("arm_convolve_wrapper_s8"), Handle("input"), Handle("filter"),
      Handle("multiplier"), Handle("shift"), Handle("output")>>
    \o (IF e.bias_add THEN <<Handle("bias")>> ELSE <<>>)

\* call_ext_args before the scalar arguments are appended
ConvHandleArgs(e) ==
    LET call_ext_args == <<StringImm("arm_convolve_wrapper_s8"), Handle("input"),
                           Handle("filter"), Handle("multiplier")>>
        with_bias == IF e.bias_add
                     THEN Append(call_ext_args, Handle("bias"))
                     ELSE call_ext_args
    IN Append(Append(with_bias, Handle("shift")), Handle("output"))

ConvScalarArgsSwapped(e) ==
    LET input_offset == -e.input_zero_point
        output_offset == e.output_zero_point
        stride_w == e.strides[2]
        stride_h == e.strides[1]
        padding_w == e.padding[2]
        padding_h == e.padding[1]
        dilation_w == e.dilation[2]
        dilation_h == e.dilation[1]
    IN <<ToArg(input_offset), ToArg(output_offset), ToArg(stride_h), ToArg(stride_w),
         ToArg(padding_w), ToArg(padding_h), ToArg(dilation_w), ToArg(dilation_h),
         ToArg(ConvClipMin(e)), ToArg(ConvClipMax(e))>>

\* scalar_args as first built (cmsis_nn_conv_params)
ConvScalarArgs(e) ==
    LET input_offset == -e.input_zero_point
        output_offset == e.output_zero_point
        stride_w == e.strides[2]
        stride_h == e.strides[1]
        padding_w == e.padding[2]
        padding_h == e.padding[1]
        dilation_w == e.dilation[2]
        dilation_h == e.dilation[1]
    IN <<ToArg(input_offset), ToArg(output_offset), ToArg(stride_w), ToArg(stride_h),
         ToArg(padding_w), ToArg(padding_h), ToArg(dilation_w), ToArg(dilation_h),
         ToArg(ConvClipMin(e)), ToArg(ConvClipMax(e))>>

ConvDimsArgsNoBias(e) ==
    Concat(Concat(CMSISNNDimensions(e.input_shape), CMSISNNDimensions(e.filter_shape)),
           CMSISNNDimensions(e.output_shape))

\* input_dims, filter_dims, bias_dims, output_dims
ConvDimsArgs(e) ==
    LET input_dims == CMSISNNDimensions(e.input_shape)
        filter_dims == CMSISNNDimensions(e.filter_shape)
        bias_shape == <<1, 1, 1, e.filter_shape[1]>>
        bias_dims == CMSISNNDimensions(bias_shape)
        output_dims == CMSISNNDimensions(e.output_shape)
    IN Concat(Concat(Concat(input_dims, filter_dims), bias_dims), output_dims)

ConvContextBufferReuse(e, id) ==
    LET context_buffer_size ==
            2 * e.input_shape[4] * e.filter_shape[3] * e.filter_shape[2] * SizeofInt16
    IN IF context_buffer_size # 0
       THEN [name |-> "context_buffer_" \o ToString(0), size |-> context_buffer_size,
             id |-> id + 1]
       ELSE [name |-> "NULL", size |-> context_buffer_size, id |-> id]

\* context_buffer_name, context_buffer_size and the counter after the step
ConvContextBuffer(e, id) ==
    LET context_buffer_size ==
            2 * e.input_shape[4] * e.filter_shape[3] * e.filter_shape[2] * SizeofInt16
    IN IF context_buffer_size # 0
       THEN [name |-> "context_buffer_" \o ToString(id), size |-> context_buffer_size,
             id |-> id + 1]
       ELSE [name |-> "NULL", size |-> context_buffer_size, id |-> id]

ConvSignatureBiasLate(e) ==
    <<"input", "filter", "multiplier", "filter_scale", "input_scale">>
    \o (IF e.bias_add THEN <<"bias">> ELSE <<>>) \o <<"shift", "output">>

ConvSignature(e) ==
    LET func_signature == <<"input", "filter", "multiplier", "filter_scale">>
        with_bias == IF e.bias_add THEN Append(func_signature, "bias") ELSE func_signature
    IN Append(Append(Append(with_bias, "input_scale"), "shift"), "output")

ConvDimsOk(e) ==
    /\ CMSISNNDimensionsOk(e.input_shape)
    /\ CMSISNNDimensionsOk(e.filter_shape)
    /\ CMSISNNDimensionsOk(e.output_shape)

ConvCallExternArgs(e, ctx) ==
    LET context_buffer_args == <<StringImm(ctx.name), ToArg(ctx.size)>>
        scalar_args == Concat(Concat(context_buffer_args, ConvScalarArgs(e)), ConvDimsArgs(e))
    IN Concat(ConvHandleArgs(e), scalar_args)

EmitConv2DBufferFirst(global_var, e, id) ==
    IF ~ScalarsAreConstant(e)
    THEN [ok |-> FALSE, id |-> id]
    ELSE IF ~ConvDimsOk(e)
    THEN [ok |-> FALSE, id |-> id + 1]
    ELSE LET ctx == ConvContextBuffer(e, id)
         IN [ok |-> TRUE, id |-> ctx.id,
             func |-> CreatePrimFuncForExtern(global_var, ConvSignature(e),
                                              ConvCallExternArgs(e, ctx), ctx.name, ctx.size)]

\* Result of lowering one convolution: ok = FALSE is a fatal error (ICHECK);
\* id is context_buffer_id_ when the routine returns or throws.
EmitConv2D(global_var, e, id) ==
    IF ~ScalarsAreConstant(e)
    THEN [ok |-> FALSE, id |-> id]
    ELSE IF ~ConvDimsOk(e)
    THEN [ok |-> FALSE, id |-> id]
    ELSE LET ctx == ConvContextBuffer(e, id)
         IN [ok |-> TRUE, id |-> ctx.id,
             func |-> CreatePrimFuncForExtern(global_var, ConvSignature(e),
                                              ConvCallExternArgs(e, ctx), ctx.name, ctx.size)]

(***************************************************************************)
(* EmitSoftMax                                                             *)
(***************************************************************************)
SoftMaxNumRowsAllAxes(shape) == Product(shape)

\* num_rows: the product of the axes before the trailing one
SoftMaxNumRows(shape) ==
    LET trailing_dim == Len(shape) - 1
    IN Product(SubSeq(shape, 1, trailing_dim))

SoftMaxRowSize(shape) == shape[Len(shape)]

SoftMaxDiffMinNegateFirst(shift) ==
    LET d0 == Pow2(kScaledDiffIntegerBits) - 1
        d1 == d0 * Pow2(31 - kScaledDiffIntegerBits)
    IN ShiftRight(-1 * d1, shift)

\* diff_min: ((1 << 5) - 1) << 26, then >>= shift, then *= -1
SoftMaxDiffMin(shift) ==
    LET d0 == Pow2(kScaledDiffIntegerBits) - 1
        d1 == d0 * Pow2(31 - kScaledDiffIntegerBits)
        d2 == ShiftRight(d1, shift)
    IN -1 * d2

EmitSoftMax(global_var, e, id) ==
    IF ~ScalarsAreConstant(e)
    THEN [ok |-> FALSE, id |-> id]
    ELSE LET quant_scale == e.scale
             num_rows == SoftMaxNumRows(e.shape)
             row_size == SoftMaxRowSize(e.shape)
             beta_multiplier ==
                 MinWithInt32Max(RealMul([m |-> kBeta, e |-> 31 - kInputBits], quant_scale))
             mult_shift_pair == GetFixedPointMultiplierShift(beta_multiplier)
             mult == mult_shift_pair[1]
             shift == mult_shift_pair[2]
             diff_min == SoftMaxDiffMin(shift)
             func_signature == <<"input", "output">>
             args == <<StringImm("arm_softmax_s8"), Handle("input"), ToArg(num_rows),
                       ToArg(row_size), ToArg(mult), ToArg(shift), ToArg(diff_min),
                       Handle("output")>>
         IN [ok |-> TRUE, id |-> id,
             func |-> CreatePrimFuncForExtern(global_var, func_signature, args, "NULL", 0)]

(***************************************************************************)
(* EmitMul and EmitAdd                                                     *)
(***************************************************************************)
EmitMul(global_var, e, id) ==
    IF ~ScalarsAreConstant(e)
    THEN [ok |-> FALSE, id |-> id]
    ELSE LET quantized_multiplier ==
                 RealDiv(RealMul(e.input_0_scale, e.input_1_scale), e.output_scale)
             mult_shift_pair == GetFixedPointMultiplierShift(quantized_multiplier)
             output_multiplier == mult_shift_pair[1]
             output_shift == mult_shift_pair[2]
             tensor_size == Product(e.shape)
             func_signature == <<"input_0", "input_1", "output">>
             args == <<StringImm("arm_elementwise_mul_s8"), Handle("input_0"),
                       Handle("input_1"), ToArg(-e.input_0_zero_point),
                       ToArg(-e.input_1_zero_point), Handle("output"),
                       ToArg(e.output_zero_point), ToArg(output_multiplier),
                       ToArg(output_shift), ToArg(Int8Min), ToArg(Int8Max),
                       ToArg(tensor_size)>>
         IN [ok |-> TRUE, id |-> id,
             func |-> CreatePrimFuncForExtern(global_var, func_signature, args, "NULL", 0)]

EmitAdd(global_var, e, id) ==
    IF ~ScalarsAreConstant(e)
    THEN [ok |-> FALSE, id |-> id]
    ELSE LET input_0_offset == -e.input_0_zero_point
             input_1_offset == -e.input_1_zero_point
             max_input_scale == RealMax(e.input_0_scale, e.input_1_scale)
             twice_max_input_scale == RealMul([m |-> 1, e |-> 1], max_input_scale)
             scaled_input_0_scale == RealDiv(e.input_0_scale, twice_max_input_scale)
             scaled_input_1_scale == RealDiv(e.input_1_scale, twice_max_input_scale)
             scaled_output_scale ==
                 RealDiv(twice_max_input_scale,
                         RealMul([m |-> 1, e |-> left_shift], e.output_scale))
             input_0_mult_shift_pair == GetFixedPointMultiplierShift(scaled_input_0_scale)
             input_1_mult_shift_pair == GetFixedPointMultiplierShift(scaled_input_1_scale)
             output_mult_shift_pair == GetFixedPointMultiplierShift(scaled_output_scale)
             tensor_size == Product(e.shape)
             func_signature == <<"input_0", "input_1", "output">>
             args == <<StringImm("arm_elementwise_add_s8"), Handle("input_0"),
                       Handle("input_1"), ToArg(input_0_offset),
                       ToArg(input_0_mult_shift_pair[1]), ToArg(input_0_mult_shift_pair[2]),
                       ToArg(input_1_offset), ToArg(input_1_mult_shift_pair[1]),
                       ToArg(input_1_mult_shift_pair[2]), ToArg(left_shift),
                       Handle("output"), ToArg(e.output_zero_point),
                       ToArg(output_mult_shift_pair[1]), ToArg(output_mult_shift_pair[2]),
                       ToArg(Int8Min), ToArg(Int8Max), ToArg(tensor_size)>>
         IN [ok |-> TRUE, id |-> id,
             func |-> CreatePrimFuncForExtern(global_var, func_signature, args, "NULL", 0)]

(***************************************************************************)
(* Input programs.  A call site is                                         *)
(*   [op, compiler, composite, global_symbol, parent, body]:               *)
(* op "Function" is a partitioned function literal (attr::kCompiler =      *)
(* compiler, attr::kComposite of its inner function = composite,           *)
(* kGlobalSymbol = global_symbol, body = the composite function's body);   *)
(* op "Op" is a call of a primitive operator.  parent is the call site     *)
(* this one is an argument of (0 for the body of main).                    *)
(***************************************************************************)
ConvAttrs ==
    {[strides |-> <<1, 2>>, padding |-> <<3, 4, 3, 4>>, dilation |-> <<5, 6>>,
      input_zero_point |-> 7, output_zero_point |-> -9, a_min |-> 0, a_max |-> 6],
     [strides |-> <<2, 1>>, padding |-> <<0, 1, 0, 1>>, dilation |-> <<1, 1>>,
      input_zero_point |-> -128, output_zero_point |-> 11, a_min |-> -100, a_max |-> 100]}

ConvBody(clip, bias_add, at, input_shape, filter_shape, output_shape, const) ==
    [clip |-> clip, bias_add |-> bias_add, strides |-> at.strides, padding |-> at.padding,
     dilation |-> at.dilation, input_zero_point |-> at.input_zero_point,
     output_zero_point |-> at.output_zero_point, a_min |-> at.a_min, a_max |-> at.a_max,
     input_shape |-> input_shape, filter_shape |-> filter_shape,
     output_shape |-> output_shape, const_scalars |-> const]

SoftMaxBody(scale, shape, const) == [scale |-> scale, shape |-> shape, const_scalars |-> const]

BinaryBody(s0, z0, s1, z1, so, zo, shape, const) ==
    [input_0_scale |-> s0, input_0_zero_point |-> z0, input_1_scale |-> s1,
     input_1_zero_point |-> z1, output_scale |-> so, output_zero_point |-> zo,
     shape |-> shape, const_scalars |-> const]

Composite(composite, body) ==
    [op |-> "Function", compiler |-> "cmsis-nn", composite |-> composite, body |-> body]

\* callees that are not cmsis-nn composites of a known kind
OpCallee == [op |-> "Op", compiler |-> "", composite |-> "", body |-> [const_scalars |-> TRUE]]

UnknownComposite == Composite("cmsis-nn.qnn_fully_connected", [const_scalars |-> TRUE])

OtherCallees ==
    {OpCallee,
     [op |-> "Function", compiler |-> "ethos-u", composite |-> "ethos-u.qnn_conv2d",
      body |-> [const_scalars |-> TRUE]],
     [op |-> "Function", compiler |-> "", composite |-> "", body |-> [const_scalars |-> TRUE]],
     UnknownComposite}

AnAttr == CHOOSE at \in ConvAttrs : at.input_zero_point = 7

\* callees of the call sites of programs with several call sites
SmallCallees ==
    {OpCallee, UnknownComposite,
     Composite("cmsis-nn.qnn_conv2d",
               ConvBody(TRUE, TRUE, AnAttr, <<1, 2, 2, 1>>, <<2, 1, 1, 1>>, <<1, 2, 2, 2>>, TRUE)),
     Composite("cmsis-nn.qnn_conv2d",
               ConvBody(FALSE, FALSE, AnAttr, <<1, 2, 2, 1>>, <<1, 0, 1, 1>>, <<1, 2, 2, 1>>, TRUE)),
     Composite("cmsis-nn.qnn_conv2d",
               ConvBody(FALSE, TRUE, AnAttr, <<2, 2, 1>>, <<2, 1, 1, 1>>, <<1, 2, 2, 2>>, TRUE)),
     Composite("cmsis-nn.qnn_softmax", SoftMaxBody([m |-> 1, e |-> -8], <<1, 2, 2>>, TRUE)),
     Composite("cmsis-nn.qnn_mul",
               BinaryBody([m |-> 1, e |-> -3], 1, [m |-> 1, e |-> -4], -2,
                          [m |-> 1, e |-> -5], 3, <<1, 2, 2>>, TRUE))}

Dims == 1..MaxDim

Dims0 == 0..MaxDim

Shapes(rank) == [1..rank -> Dims]

\* convolutions of every legal shape over small tensors, and malformed ones
WideConvBodies ==
    {ConvBody(clip, bias_add, at, <<1, h, w, c>>, <<o, fh, fw, c>>, <<1, h, w, o>>, TRUE) :
        clip \in BOOLEAN, bias_add \in BOOLEAN, at \in ConvAttrs,
        h \in Dims, w \in Dims, c \in Dims0, o \in Dims, fh \in Dims0, fw \in Dims0}
    \cup
    {ConvBody(clip, bias_add, AnAttr, is, fs, os, const) :
        clip \in BOOLEAN, bias_add \in BOOLEAN, const \in BOOLEAN,
        is \in {<<1, 2, 1>>, <<1, 2, 2, 1>>, <<1, 1, 2, 2, 1>>},
        fs \in {<<2, 1, 1>>, <<2, 1, 1, 1>>, <<2, 1, 1, 1, 1>>},
        os \in {<<2, 2, 2>>, <<1, 2, 2, 2>>, <<1, 1, 2, 2, 2>>}}

SoftMaxScales ==
    {[m |-> 1, e |-> -8], [m |-> 3, e |-> -6], [m |-> 1, e |-> 0], [m |-> 1, e |-> 6]}

WideSoftMaxBodies ==
    {SoftMaxBody(sc, sh, const) :
        sc \in SoftMaxScales, const \in BOOLEAN,
        sh \in Shapes(1) \cup Shapes(2) \cup Shapes(3) \cup Shapes(4)}

\* scales 2^(k-27), k in 0..31: the decomposition of scale * 2^26 has shift k
ShiftScales == {[m |-> 1, e |-> k - 27] : k \in 0..31}

ShiftSoftMaxBodies == {SoftMaxBody(sc, <<1, 2>>, TRUE) : sc \in ShiftScales}

WideBinaryBodies ==
    {BinaryBody([m |-> 1, e |-> e0], z0, [m |-> 1, e |-> e1], 5, [m |-> 1, e |-> -6], -3,
                sh, const) :
        e0 \in {-7, -3}, e1 \in {-7, -5}, z0 \in {-1, 4}, const \in BOOLEAN,
        sh \in Shapes(1) \cup Shapes(3)}

WideCallees ==
    {Composite("cmsis-nn.qnn_conv2d", b) : b \in WideConvBodies}
    \cup {Composite("cmsis-nn.qnn_softmax", b) : b \in WideSoftMaxBodies}
    \cup {Composite("cmsis-nn.qnn_softmax", b) : b \in ShiftSoftMaxBodies}
    \cup {Composite("cmsis-nn.qnn_mul", b) : b \in WideBinaryBodies}
    \cup {Composite("cmsis-nn.qnn_add", b) : b \in WideBinaryBodies}
    \cup OtherCallees

\* the partitioner gives every partitioned function its own global symbol
GlobalSymbol(i) == "tvmgen_default_cmsis_nn_main_" \o ToString(i - 1)

\* parent vectors of the trees over 1..n numbered in post-order
ParentVectors(n) ==
    {p \in [1..n -> 0..n] :
        /\ p[n] = 0
        /\ \A i \in 1..(n - 1) : p[i] > i
        /\ \A i \in 1..(n - 1) : \A j \in (i + 1)..(p[i] - 1) : p[j] <= p[i]}

MakeProgram(n, p, c) ==
    [i \in 1..n |->
        [op |-> c[i].op, compiler |-> c[i].compiler, composite |-> c[i].composite,
         body |-> c[i].body, parent |-> p[i],
         global_symbol |-> IF c[i].op = "Function" THEN GlobalSymbol(i) ELSE ""]]

Programs ==
    UNION {{MakeProgram(n, p, c) : p \in ParentVectors(n), c \in [1..n -> SmallCallees]} :
              n \in 1..MaxSites}
    \cup {MakeProgram(1, <<0>>, <<c>>) : c \in WideCallees}

(***************************************************************************)
(* The rewrite driver                                                      *)
(***************************************************************************)
\* the call sites that are arguments of call site n, in order
Args(n) == SelectSeq([i \in 1..Len(main_func) |-> i], LAMBDA i : main_func[i].parent = n)

\* lines 394-405: the four independent tests on comp_name
Emit(call, id) ==
    IF call.composite = "cmsis-nn.qnn_softmax"
    THEN [emitted |-> TRUE, r |-> EmitSoftMax(call.global_symbol, call.body, id)]
    ELSE IF call.composite = "cmsis-nn.qnn_mul"
    THEN [emitted |-> TRUE, r |-> EmitMul(call.global_symbol, call.body, id)]
    ELSE IF call.composite = "cmsis-nn.qnn_add"
    THEN [emitted |-> TRUE, r |-> EmitAdd(call.global_symbol, call.body, id)]
    ELSE IF call.composite = "cmsis-nn.qnn_conv2d"
    THEN [emitted |-> TRUE, r |-> EmitConv2D(call.global_symbol, call.body, id)]
    ELSE [emitted |-> FALSE, r |-> [ok |-> TRUE, id |-> id]]

SubstituteCallKeepCallee(call) == call

\* line 412: Call(new_global_var, args, ...)
SubstituteCall(call) ==
    [op |-> "GlobalVar", name_hint |-> call.global_symbol, parent |-> call.parent]

\* ir_module_->Add(global_var, replacement_func)
Add(functions, func) == Append(functions, func)

(***************************************************************************)
(* Rewrite(n, s): Rewrite_ applied to the call s.post[n] (the call site n  *)
(* with its arguments already rewritten), in the pass state                *)
(*   s = [ok, functions, id, post].                                        *)
(* VisitArgs(as, s): VisitExpr on each of the argument expressions as:     *)
(* their own arguments first, then Rewrite_ on the call.                   *)
(***************************************************************************)
RECURSIVE Rewrite(_, _), VisitArgs(_, _)
Rewrite(n, s) ==
    LET call == s.post[n]
    IN IF call.op # "Function"
       THEN s
       ELSE IF call.compiler # "cmsis-nn"
       THEN s
       ELSE LET em == Emit(call, s.id)
            IN IF ~em.r.ok
               THEN [s EXCEPT !.ok = FALSE, !.id = em.r.id]
               ELSE LET s1 == [s EXCEPT !.functions =
                                            IF em.emitted THEN Add(@, em.r.func) ELSE @,
                                        !.id = em.r.id]
                        s2 == VisitArgs(Args(n), s1)
                    IN IF ~s2.ok
                       THEN s2
                       ELSE [s2 EXCEPT !.post[n] = SubstituteCall(call)]

VisitArgs(as, s) ==
    IF as = <<>> \/ ~s.ok
    THEN s
    ELSE LET a == Head(as)
             s1 == VisitArgs(Args(a), s)
             s2 == IF s1.ok THEN Rewrite(a, s1) ELSE s1
         IN VisitArgs(Tail(as), s2)

(***************************************************************************)
(* State after construction: the pass is about to visit the body of main.  *)
(***************************************************************************)
Init ==
    /\ main_func \in Programs
    /\ ir_module_ = [functions |-> <<>>, main |-> main_func]
    /\ context_buffer_id_ = 0
    /\ memo_ = <<>>
    /\ pc = "visit"

\* the mutator reaches the next call site in post-order and calls Rewrite_
Rewrite_ ==
    /\ pc = "visit"
    /\ Len(memo_) < Len(main_func)
    /\ LET n == Len(memo_) + 1
           s0 == [ok |-> TRUE, functions |-> ir_module_.functions,
                  id |-> context_buffer_id_, post |-> Append(memo_, main_func[n])]
           s == Rewrite(n, s0)
       IN /\ ir_module_' = [ir_module_ EXCEPT !.functions = s.functions]
          /\ context_buffer_id_' = s.id
          /\ memo_' = IF s.ok THEN s.post ELSE memo_
          /\ pc' = IF s.ok THEN "visit" ELSE "error"
    /\ UNCHANGED main_func

\* lines 51-57: the mutated body replaces the body of main
Mutate ==
    /\ pc = "visit"
    /\ Len(memo_) = Len(main_func)
    /\ ir_module_' = [ir_module_ EXCEPT !.main = memo_]
    /\ pc' = "done"
    /\ UNCHANGED <<main_func, context_buffer_id_, memo_>>

Next == Rewrite_ \/ Mutate

Spec == Init /\ [][Next]_vars

(***************************************************************************)
(* Vocabulary of the properties                                            *)
(***************************************************************************)
Functions == ir_module_.functions

Sites == 1..Len(main_func)

KnownComposites ==
    {"cmsis-nn.qnn_conv2d", "cmsis-nn.qnn_softmax", "cmsis-nn.qnn_mul", "cmsis-nn.qnn_add"}

\* the callee is a fused composite of a known kind
Recognized(site) ==
    /\ site.op = "Function"
    /\ site.compiler = "cmsis-nn"
    /\ site.composite \in KnownComposites

IsConvSite(site) == Recognized(site) /\ site.composite = "cmsis-nn.qnn_conv2d"

\* the call site a registered unit was emitted for
SiteOf(f) == CHOOSE i \in Sites : main_func[i].global_symbol = f.global_var

KindOf(f) == main_func[SiteOf(f)].composite

ExternCalls(f) == SelectSeq(f.body, LAMBDA st : st.stmt = "Evaluate")

Allocations(f) == SelectSeq(f.body, LAMBDA st : st.stmt = "Allocate")

CallExternArgs(f) == ExternCalls(f)[1].call_extern

HandleArgs(f) == SelectSeq(CallExternArgs(f), IsHandle)

UnitsNamed(name) == {k \in 1..Len(Functions) : Functions[k].global_var = name}

\* the call site Rewrite_ is about to be called on
Current == Len(memo_) + 1

Visiting == pc = "visit" /\ Current \in Sites

IsGlobalCall(expr, name) == expr.op = "GlobalVar" /\ expr.name_hint = name

IntsAt(args, from, shape) == \A d \in 1..4 : args[from + d - 1] = [int |-> shape[d]]

(***************************************************************************)
(* C1: for every convolution unit (with or without bias-add, with or       *)
(* without clip) the call_extern arguments are, in this order: the routine *)
(* name, input, filter, multiplier, bias iff a bias-add node is present,   *)
(* shift, output, scratch name and size, negated input zero-point, output  *)
(* zero-point, stride w/h, padding w/h, dilation w/h, clamp min/max, then  *)
(* the dimensions of input, filter, (1,1,1,output_channels) and output.    *)
(***************************************************************************)
ConvArgOrderAt(f) ==
    LET e == main_func[SiteOf(f)].body
        args == CallExternArgs(f)
        b == IF e.bias_add THEN 1 ELSE 0
    IN /\ Len(args) = 34 + b
       /\ args[1] = [str |-> "arm_convolve_wrapper_s8"]
       /\ args[2] = [handle |-> "input"]
       /\ args[3] = [handle |-> "filter"]
       /\ args[4] = [handle |-> "multiplier"]
       /\ e.bias_add <=> (\E k \in 1..Len(args) : args[k] = [handle |-> "bias"])
       /\ e.bias_add => args[5] = [handle |-> "bias"]
       /\ args[5 + b] = [handle |-> "shift"]
       /\ args[6 + b] = [handle |-> "output"]
       /\ IsStr(args[7 + b])
       /\ IsInt(args[8 + b])
       /\ args[9 + b] = [int |-> 0 - e.input_zero_point]
       /\ args[10 + b] = [int |-> e.output_zero_point]
       /\ args[11 + b] = [int |-> e.strides[2]]
       /\ args[12 + b] = [int |-> e.strides[1]]
       /\ args[13 + b] = [int |-> e.padding[2]]
       /\ args[14 + b] = [int |-> e.padding[1]]
       /\ args[15 + b] = [int |-> e.dilation[2]]
       /\ args[16 + b] = [int |-> e.dilation[1]]
       /\ args[17 + b] = [int |-> IF e.clip THEN e.a_min ELSE -128]
       /\ args[18 + b] = [int |-> IF e.clip THEN e.a_max ELSE 127]
       /\ IntsAt(args, 19 + b, e.input_shape)
       /\ IntsAt(args, 23 + b, e.filter_shape)
       /\ IntsAt(args, 27 + b, <<1, 1, 1, e.output_shape[4]>>)
       /\ IntsAt(args, 31 + b, e.output_shape)

C1_ConvArgumentOrder ==
    \A k \in 1..Len(Functions) :
        KindOf(Functions[k]) = "cmsis-nn.qnn_conv2d" => ConvArgOrderAt(Functions[k])

C1_Witness ==
    /\ pc = "done"
    /\ \E k \in 1..Len(Functions) :
          /\ KindOf(Functions[k]) = "cmsis-nn.qnn_conv2d"
          /\ main_func[SiteOf(Functions[k])].body.bias_add
          /\ main_func[SiteOf(Functions[k])].body.clip
    /\ \E k \in 1..Len(Functions) :
          /\ KindOf(Functions[k]) = "cmsis-nn.qnn_conv2d"
          /\ ~main_func[SiteOf(Functions[k])].body.bias_add
          /\ ~main_func[SiteOf(Functions[k])].body.clip

(***************************************************************************)
(* C2: lowering one call site whose composite body is the full chain       *)
(* clip(requantize(bias_add(conv2d))) registers exactly one new unit,      *)
(* named by the site's global symbol, whose body holds exactly one         *)
(* external call passing 34 arguments to the routine (6 handles, 2         *)
(* scratch-buffer arguments, 10 scalars, 16 dimension values), and the     *)
(* call site becomes a call of that unit's name.                           *)
(***************************************************************************)
FullChain(site) ==
    /\ IsConvSite(site)
    /\ site.body.clip
    /\ site.body.bias_add
    /\ site.body.const_scalars
    /\ ConvDimsOk(site.body)

\* the arguments handed to the routine: everything after the routine name
RoutineArgs(f) == Tail(CallExternArgs(f))

FullChainUnit(f, name) ==
    /\ f.global_var = name
    /\ f.attrs.global_symbol = name
    /\ Len(ExternCalls(f)) = 1
    /\ IsStr(Head(CallExternArgs(f)))
    /\ Len(RoutineArgs(f)) = 34
    /\ Len(SelectSeq(RoutineArgs(f), IsHandle)) = 6
    /\ Len(SelectSeq(SubSeq(RoutineArgs(f), 7, 8), LAMBDA a : IsStr(a) \/ IsInt(a))) = 2
    /\ Len(SelectSeq(SubSeq(RoutineArgs(f), 9, 18), IsInt)) = 10
    /\ Len(SelectSeq(SubSeq(RoutineArgs(f), 19, 34), IsInt)) = 16

C2_FullChainStep ==
    (Visiting /\ FullChain(main_func[Current]))
        => /\ pc' = "visit"
           /\ Len(Functions') = Len(Functions) + 1
           /\ SubSeq(Functions', 1, Len(Functions)) = Functions
           /\ FullChainUnit(Functions'[Len(Functions')], main_func[Current].global_symbol)
           /\ Len(memo_') = Current
           /\ IsGlobalCall(memo_'[Current], main_func[Current].global_symbol)

C2_FullChainOneUnit == [][C2_FullChainStep]_vars

C2_Witness ==
    /\ pc = "done"
    /\ Len(Functions) = 1
    /\ FullChain(main_func[1])
    /\ IsGlobalCall(ir_module_.main[1], main_func[1].global_symbol)

(***************************************************************************)
(* C3: in one pass every call site whose callee is a fused composite of a  *)
(* known kind is lowered exactly once: a visited site has exactly one      *)
(* registered unit, a site not yet visited has none, a finished pass has   *)
(* visited every site, and the unit of a fused site nested in the          *)
(* arguments of another fused site is registered before the unit of the    *)
(* enclosing site.                                                         *)
(***************************************************************************)
RECURSIVE IsNestedIn(_, _)
IsNestedIn(i, j) ==
    /\ main_func[i].parent # 0
    /\ \/ main_func[i].parent = j
       \/ IsNestedIn(main_func[i].parent, j)

UnitIndex(i) == CHOOSE k \in UnitsNamed(main_func[i].global_symbol) : TRUE

C3_LoweredExactlyOnce ==
    /\ pc = "done" => Len(memo_) = Len(main_func)
    /\ \A i \in Sites :
          Recognized(main_func[i]) =>
              Cardinality(UnitsNamed(main_func[i].global_symbol))
                  = IF i <= Len(memo_) THEN 1 ELSE 0
    /\ \A i \in Sites : \A j \in Sites :
          (/\ Recognized(main_func[i]) /\ Recognized(main_func[j])
           /\ IsNestedIn(i, j) /\ j <= Len(memo_))
              => UnitIndex(i) < UnitIndex(j)

C3_Witness ==
    /\ pc = "done"
    /\ Len(Functions) = 3
    /\ \E i \in Sites : \E j \in Sites :
          /\ Recognized(main_func[i]) /\ Recognized(main_func[j])
          /\ main_func[i].parent = j
          /\ UnitIndex(i) < UnitIndex(j)

(***************************************************************************)
(* C4: if lowering of a call site fails, the pass ends in an error and     *)
(* the module holds none of the units registered by the aborted pass and   *)
(* its main function is unchanged.                                         *)
(***************************************************************************)
C4_NoPartialOutput ==
    pc = "error" => (ir_module_.functions = <<>> /\ ir_module_.main = main_func)

(***************************************************************************)
(* C5: a call site whose callee is not a recognized fused composite (not   *)
(* a function, not tagged "cmsis-nn", or of an unknown composite name) is  *)
(* returned as it was, registers no unit and leaves the scratch-buffer     *)
(* counter alone.                                                          *)
(***************************************************************************)
C5_UnrecognizedStep ==
    (Visiting /\ ~Recognized(main_func[Current]))
        => /\ memo_' = Append(memo_, main_func[Current])
           /\ Functions' = Functions
           /\ context_buffer_id_' = context_buffer_id_

C5_UnrecognizedUnchanged == [][C5_UnrecognizedStep]_vars

(***************************************************************************)
(* C6 (as stated): for every pattern kind the formal parameter list of     *)
(* the emitted unit equals, position by position, the handle-typed         *)
(* arguments of its external call.                                         *)
(***************************************************************************)
HandleNames(f) == [k \in 1..Len(HandleArgs(f)) |-> HandleArgs(f)[k].handle]

C6_SignatureEqualsHandles ==
    \A k \in 1..Len(Functions) : Functions[k].params = HandleNames(Functions[k])

(***************************************************************************)
(* C6 (amended): for softmax, mul and add the formal parameter list equals *)
(* the handle-typed arguments of the external call position by position;   *)
(* for a convolution the formal parameter list is that sequence with two   *)
(* further formal parameters that are not passed to the external call:     *)
(* filter_scale right after multiplier and input_scale right before shift. *)
(***************************************************************************)
ConvOnlyParams == {"filter_scale", "input_scale"}

C6_SignatureMirrorsHandles ==
    \A k \in 1..Len(Functions) :
        LET f == Functions[k]
            n == Len(f.params)
        IN IF KindOf(f) = "cmsis-nn.qnn_conv2d"
           THEN /\ SelectSeq(f.params, LAMBDA v : v \notin ConvOnlyParams) = HandleNames(f)
                /\ n = Len(HandleNames(f)) + 2
                /\ f.params[3] = "multiplier" /\ f.params[4] = "filter_scale"
                /\ f.params[n - 2] = "input_scale" /\ f.params[n - 1] = "shift"
                /\ \A v \in ConvOnlyParams : \A a \in 1..Len(HandleArgs(f)) :
                      HandleArgs(f)[a].handle # v
           ELSE f.params = HandleNames(f)

C6_Witness ==
    /\ \E k \in 1..Len(Functions) :
          /\ KindOf(Functions[k]) = "cmsis-nn.qnn_conv2d"
          /\ main_func[SiteOf(Functions[k])].body.bias_add
          /\ Len(Functions[k].params) = 8
    /\ \E k \in 1..Len(Functions) : KindOf(Functions[k]) = "cmsis-nn.qnn_softmax"
    /\ \E k \in 1..Len(Functions) : KindOf(Functions[k]) \in {"cmsis-nn.qnn_mul", "cmsis-nn.qnn_add"}

(***************************************************************************)
(* C7: for a convolution with input (N,H,W,C_in) and OHWI filter           *)
(* (O,F_h,F_w,C_in) the scratch size is 2 * C_in * F_h * F_w * 2; the      *)
(* unit's body declares a scratch allocation iff the size is non-zero;     *)
(* when it is zero the name is "NULL", the size argument is 0 and the body *)
(* is the bare external call.  Softmax, mul and add never allocate.        *)
(***************************************************************************)
C7_ScratchAt(f) ==
    LET e == main_func[SiteOf(f)].body
        args == CallExternArgs(f)
        b == IF e.bias_add THEN 1 ELSE 0
        name == args[7 + b]
        size == 2 * e.input_shape[4] * e.filter_shape[2] * e.filter_shape[3] * 2
    IN /\ args[8 + b] = [int |-> size]
       /\ IsStr(name)
       /\ (Len(Allocations(f)) = 1) <=> (size # 0)
       /\ Len(Allocations(f)) <= 1
       /\ size # 0 => /\ Allocations(f)[1].buffer_var = name.str
                      /\ Allocations(f)[1].extents = <<size>>
                      /\ name.str # "NULL"
       /\ size = 0 => /\ name = [str |-> "NULL"]
                      /\ f.body = <<[stmt |-> "Evaluate", call_extern |-> args]>>

C7_ScratchBuffer ==
    \A k \in 1..Len(Functions) :
        IF KindOf(Functions[k]) = "cmsis-nn.qnn_conv2d"
        THEN C7_ScratchAt(Functions[k])
        ELSE Allocations(Functions[k]) = <<>>

C7_Witness ==
    /\ \E k \in 1..Len(Functions) :
          KindOf(Functions[k]) = "cmsis-nn.qnn_conv2d" /\ Len(Allocations(Functions[k])) = 1
    /\ \E k \in 1..Len(Functions) :
          KindOf(Functions[k]) = "cmsis-nn.qnn_conv2d" /\ Allocations(Functions[k]) = <<>>
    /\ \E k \in 1..Len(Functions) : KindOf(Functions[k]) # "cmsis-nn.qnn_conv2d"

(***************************************************************************)
(* C8: a softmax unit's arguments are "arm_softmax_s8", input, row count,  *)
(* row size, multiplier, shift, diff-min, output; for an output shape of   *)
(* rank >= 1 the row size is the last axis and the row count the product   *)
(* of the axes before it (1 when there are none), so that                  *)
(* row count * row size is the number of elements.                         *)
(***************************************************************************)
RECURSIVE ElementCount(_, _)
ElementCount(shape, upto) ==
    IF upto = 0 THEN 1 ELSE ElementCount(shape, upto - 1) * shape[upto]

C8_SoftMaxAt(f) ==
    LET shape == main_func[SiteOf(f)].body.shape
        args == CallExternArgs(f)
    IN /\ Len(args) = 8
       /\ args[1] = [str |-> "arm_softmax_s8"]
       /\ args[2] = [handle |-> "input"]
       /\ args[3] = [int |-> ElementCount(shape, Len(shape) - 1)]
       /\ args[4] = [int |-> shape[Len(shape)]]
       /\ IsInt(args[5]) /\ IsInt(args[6]) /\ IsInt(args[7])
       /\ args[8] = [handle |-> "output"]
       /\ Len(shape) = 1 => args[3] = [int |-> 1]
       /\ args[3].int * args[4].int = ElementCount(shape, Len(shape))

C8_SoftMaxArguments ==
    \A k \in 1..Len(Functions) :
        KindOf(Functions[k]) = "cmsis-nn.qnn_softmax" => C8_SoftMaxAt(Functions[k])

C8_Witness ==
    \E k \in 1..Len(Functions) :
        /\ KindOf(Functions[k]) = "cmsis-nn.qnn_softmax"
        /\ Len(main_func[SiteOf(Functions[k])].body.shape) = 4
        /\ CallExternArgs(Functions[k])[3].int > CallExternArgs(Functions[k])[4].int
        /\ CallExternArgs(Functions[k])[4].int > 1

(***************************************************************************)
(* C9: lowering a convolution whose input, filter or output shape has a    *)
(* rank other than 4 is a fatal error: the pass stops with no unit         *)
(* registered for the call site and no scratch-buffer name taken from the  *)
(* counter.                                                                *)
(***************************************************************************)
BadRankConv(site) == IsConvSite(site) /\ ~ConvDimsOk(site.body)

C9_BadRankStep ==
    (Visiting /\ BadRankConv(main_func[Current]))
        => /\ pc' = "error"
           /\ Functions' = Functions
           /\ context_buffer_id_' = context_buffer_id_
           /\ memo_' = memo_

C9_BadRankIsFatal == [][C9_BadRankStep]_vars

C9_Witness ==
    /\ pc = "error"
    /\ BadRankConv(main_func[Current])
    /\ main_func[Current].body.const_scalars
    /\ context_buffer_id_ = 1
    /\ UnitsNamed(main_func[Current].global_symbol) = {}

(***************************************************************************)
(* C10: the scratch-buffer counter never decreases; it equals the number   *)
(* of emitted convolution units with a non-zero scratch size (softmax,     *)
(* mul, add and zero-size convolutions do not advance it); the buffers of  *)
(* two emitted units have different names "context_buffer_<k>".            *)
(***************************************************************************)
UnitsWithScratch == {k \in 1..Len(Functions) : Allocations(Functions[k]) # <<>>}

ScratchName(k) == Allocations(Functions[k])[1].buffer_var

C10_CounterState ==
    /\ context_buffer_id_ = Cardinality(UnitsWithScratch)
    /\ \A k \in UnitsWithScratch :
          /\ KindOf(Functions[k]) = "cmsis-nn.qnn_conv2d"
          /\ \E c \in 0..(context_buffer_id_ - 1) :
                ScratchName(k) = "context_buffer_" \o ToString(c)
    /\ \A k \in UnitsWithScratch : \A l \in UnitsWithScratch :
          k # l => ScratchName(k) # ScratchName(l)

C10_CounterStep == context_buffer_id_' >= context_buffer_id_

C10_ScratchCounter == [](C10_CounterState) /\ [][C10_CounterStep]_vars

C10_Witness ==
    /\ pc = "done"
    /\ context_buffer_id_ = 2
    /\ Len(Functions) = 3
    /\ Cardinality(UnitsWithScratch) = 2

(***************************************************************************)
(* C11 (as stated): for a softmax unit, with shift the shift of the        *)
(* fixed-point decomposition of min(beta * input_scale * 2^26, 2^31 - 1),  *)
(* diff-min equals -(((1 << 5) - 1) << 26) >> shift with the usual         *)
(* precedence: the negated constant -31 * 2^26, arithmetically shifted     *)
(* right by shift, for every shift in 0..31.                               *)
(***************************************************************************)
SoftMaxUnits == {k \in 1..Len(Functions) : KindOf(Functions[k]) = "cmsis-nn.qnn_softmax"}

ShiftArg(k) == CallExternArgs(Functions[k])[6].int

DiffMinArg(k) == CallExternArgs(Functions[k])[7].int

\* the shift of the decomposition of v = min(scale * 2^26, 2^31 - 1):
\* the s with 2^(s-1) <= v < 2^s
DecompositionShift(scale) ==
    IF BitLen(scale.m) + scale.e + 26 >= 32 THEN 31 ELSE BitLen(scale.m) + scale.e + 26

NegateThenShift(shift) == ShiftRight(0 - (31 * Pow2(26)), shift)

ShiftThenNegate(shift) == 0 - ShiftRight(31 * Pow2(26), shift)

C11_DiffMinNegateThenShift ==
    \A k \in SoftMaxUnits :
        ShiftArg(k) \in 0..31 => DiffMinArg(k) = NegateThenShift(ShiftArg(k))

(***************************************************************************)
(* C11 (amended): diff-min equals -((((1 << 5) - 1) << 26) >> shift): the  *)
(* constant 31 * 2^26 is shifted right by shift and the result is negated, *)
(* for every shift in 0..31.  This is the stated expression for            *)
(* shift <= 26 and one more than it for 27 <= shift <= 31.                 *)
(***************************************************************************)
C11_DiffMinShiftThenNegate ==
    \A k \in SoftMaxUnits :
        LET shift == ShiftArg(k)
        IN /\ shift = DecompositionShift(main_func[SiteOf(Functions[k])].body.scale)
           /\ shift \in 0..31 =>
                 /\ DiffMinArg(k) = ShiftThenNegate(shift)
                 /\ shift <= 26 => DiffMinArg(k) = NegateThenShift(shift)
                 /\ shift >= 27 => DiffMinArg(k) = NegateThenShift(shift) + 1

C11_Witness ==
    /\ pc = "done"
    /\ \E k \in SoftMaxUnits : ShiftArg(k) = 27 /\ DiffMinArg(k) = -15

====
